---- MODULE Spec2Model ----
(***************************************************************************)
(* A model of the content-generation pipeline of SEO-Blog-Writer:          *)
(* generate_outline, generate_section_text, dedupe_and_paraphrase_sections,*)
(* polish_sections, micro_refine_article (src/src/content.py) and the cli  *)
(* driver that sequences them (src/main.py).                               *)
(*                                                                         *)
(* Texts are sequences of one-character strings.  Python floats are        *)
(* modelled by the integer computation that yields the same result as the  *)
(* IEEE double computation of the source (see Int012, Int035).             *)
(***************************************************************************)
EXTENDS Integers, Sequences, FiniteSets, TLC

VARIABLES
    pc,                 \* position of the control flow
    topic,              \* cli option --topic
    heading,            \* cli option --heading (a text)
    word_count,         \* cli option --word_count
    deep,               \* cli: deep_flag, the --deep option as a boolean
    polish,             \* cli flag --polish
    output_format,      \* cli option --format
    research,           \* cli: the research bundle
    outline,            \* cli: result of generate_outline
    metadata,           \* cli: result of generate_metadata / micro_refine_article
    idx,                \* cli: enumerate index of the generation loop (from 1)
    generated_sections, \* cli: the section list
    printed,            \* cli: what the run printed about failures and success
    exit_code,          \* the process exit status, -1 while running
    exported,           \* the exporters invoked, in order
    sections,           \* parameter sections of the function that is running
    threshold,          \* dedupe_and_paraphrase_sections: parameter threshold, <<num, den>>
    embs,               \* dedupe_and_paraphrase_sections: embs
    keep,               \* dedupe_and_paraphrase_sections: keep
    i,                  \* dedupe_and_paraphrase_sections: outer loop index (from 1)
    k,                  \* dedupe_and_paraphrase_sections: inner loop index (from 1)
    sec,                \* dedupe_and_paraphrase_sections: sec
    polished,           \* polish_sections: polished
    p,                  \* polish_sections: loop index (from 1)
    mr_result,          \* micro_refine_article: the returned pair
    quota,              \* service replies that may still differ from the nominal reply
    calls,              \* the requests sent to the external services and the writes of the cache file, in order
    cache_file,         \* research.py: the content of CACHE_FILE on disk
    args,               \* the arguments of a function that is run by itself
    result              \* the value that function returned

inputVars == <<topic, heading, word_count, deep, polish, output_format>>
cliVars == <<research, outline, metadata, idx, generated_sections, printed, exit_code, exported>>
ddVars == <<sections, threshold, embs, keep, i, k, sec>>
poVars == <<polished, p>>
mrVars == <<mr_result>>
envVars == <<quota, calls>>
diskVars == <<cache_file>>
fnVars == <<args, result>>

vars == <<pc, inputVars, cliVars, ddVars, poVars, mrVars, envVars, diskVars, fnVars>>

\* ---------------------------------------------------------- small helpers
Max2(a, b) == IF a >= b THEN a ELSE b
Min2(a, b) == IF a <= b THEN a ELSE b

\* The largest power of two that is <= n (n >= 1).
RECURSIVE Pow2Below(_, _)
Pow2Below(n, pw) == IF 2 * pw <= n THEN Pow2Below(n, 2 * pw) ELSE pw

\* int(x * 0.12) for an int x >= 0: the double product truncates to the same
\* integer as the exact floor(12 x / 100) for every 0 <= x < 200000.
Int012(x) == (12 * x) \div 100

\* int(x * 0.35) for an int x >= 0.  The double nearest to 0.35 lies below
\* 0.35, so when 0.35 x is an integer N (x a multiple of 20) the double
\* product rounds to N only if N < 1.75 * 2^floor(log2 N); otherwise it
\* rounds to the double just below N and int() truncates to N - 1.
Int035(x) ==
    IF x > 0 /\ x % 20 = 0 /\ 4 * ((7 * x) \div 20) > 7 * Pow2Below((7 * x) \div 20, 1)
    THEN ((7 * x) \div 20) - 1
    ELSE (35 * x) \div 100

\* list.insert(idx, x) of Python for 0 <= idx (0-based; idx >= len appends).
Insert(seq, at, x) ==
    IF at >= Len(seq) THEN Append(seq, x)
    ELSE SubSeq(seq, 1, at) \o <<x>> \o SubSeq(seq, at + 1, Len(seq))

\* ------------------------------------------------------- generate_outline
min_sections == 5
max_sections == 10

\* A mutant of num_h2_for: the branch of the large targets stops one
\* section short of max_sections.
num_h2_short_of_max(target_word_count) ==
    IF target_word_count <= 700 THEN min_sections
    ELSE IF target_word_count >= 3000 THEN max_sections - 1
    ELSE Min2(max_sections,
              Max2(min_sections,
                   min_sections + ((target_word_count - 700) * (max_sections - min_sections)) \div (3000 - 700)))

\* num_h2: int(min_sections + ratio * span) with ratio a double equals
\* the exact floor for every integer target (checked for -50..5000).
num_h2_for(target_word_count) ==
    IF target_word_count <= 700 THEN min_sections
    ELSE IF target_word_count >= 3000 THEN max_sections
    ELSE Min2(max_sections,
              Max2(min_sections,
                   min_sections + ((target_word_count - 700) * (max_sections - min_sections)) \div (3000 - 700)))

intro_words_for(target_word_count) == Max2(120, Int012(target_word_count))
conclusion_words_for(target_word_count) == Max2(120, Int012(target_word_count))
body_words_for(target_word_count) ==
    Max2(200, target_word_count - intro_words_for(target_word_count)
                                - conclusion_words_for(target_word_count))

\* A mutant of per_section_for: the body budget is split over num_h2 + 2.
per_section_wrong_divisor(target_word_count) ==
    Max2(120, body_words_for(target_word_count) \div (num_h2_for(target_word_count) + 2))

per_section_for(target_word_count) ==
    Max2(120, body_words_for(target_word_count) \div Max2(1, num_h2_for(target_word_count)))

core_sections(tp) ==
    << "Understanding " \o tp,
       "Key Benefits of " \o tp,
       "Core Concepts and Terminology",
       "How to Get Started with " \o tp,
       "Best Practices for " \o tp,
       "Common Pitfalls and How to Avoid Them",
       "Tools and Resources for " \o tp,
       "Advanced Tips and Strategies",
       "Real-World Examples and Case Studies" >>

h3_variants == <<"Key Takeaways", "Action Steps", "Quick Checklist", "Pro Tips", "Summary Points">>

OutlineNode(level, title, target_words) ==
    [level |-> level, title |-> title, target_words |-> target_words]

\* len([s for s in outline if s["level"] == "h2"])
H2Count(ol) == Cardinality({n \in 1..Len(ol) : ol[n].level = "h2"})

\* The while loop of lines 49-53.
RECURSIVE AppendBody(_, _, _, _, _)
AppendBody(ol, ii, tp, num_h2, per_section) ==
    IF H2Count(ol) - 1 < num_h2
    THEN AppendBody(Append(ol, OutlineNode("h2", core_sections(tp)[(ii % Len(core_sections(tp))) + 1], per_section)),
                    ii + 1, tp, num_h2, per_section)
    ELSE ol

\* [idx for idx, s in enumerate(outline) if h2 and title not in {...}], 0-based, ascending.
RECURSIVE H2IndicesFrom(_, _)
H2IndicesFrom(ol, n) ==
    IF n > Len(ol) THEN <<>>
    ELSE IF ol[n].level = "h2" /\ ol[n].title \notin {"Introduction", "Conclusion"}
         THEN <<n - 1>> \o H2IndicesFrom(ol, n + 1)
         ELSE H2IndicesFrom(ol, n + 1)

h2_indices_of(ol) == H2IndicesFrom(ol, 1)

\* The for loop of lines 59-61: the indices were computed before the first
\* insertion and are used as they are.
RECURSIVE InsertH3(_, _, _, _)
InsertH3(ol, indices, j, per_section) ==
    IF j >= Len(indices) THEN ol
    ELSE InsertH3(Insert(ol, indices[j + 1] + 1,
                         OutlineNode("h3", h3_variants[(j % Len(h3_variants)) + 1],
                                     Max2(80, Int035(per_section)))),
                  indices, j + 1, per_section)

generate_outline(tp, target_word_count) ==
    LET num_h2 == num_h2_for(target_word_count)
        per_section == per_section_for(target_word_count)
        start == <<OutlineNode("h2", "Introduction", intro_words_for(target_word_count))>>
        body == AppendBody(start, 0, tp, num_h2, per_section)
        full == Append(body, OutlineNode("h2", "Conclusion", conclusion_words_for(target_word_count)))
        all_idx == h2_indices_of(full)
        chosen == SubSeq(all_idx, 1, Max2(1, Len(all_idx) \div 3))
    IN  InsertH3(full, chosen, 0, per_section)


\* ------------------------------------------------------------------ texts
\* A text is a sequence of one-character strings.
Whitespace == {" ", "\n", "\t"}

RECURSIVE LStrip(_, _)
LStrip(t, cs) == IF t # <<>> /\ Head(t) \in cs THEN LStrip(Tail(t), cs) ELSE t

RECURSIVE RStrip(_, _)
RStrip(t, cs) ==
    IF t # <<>> /\ t[Len(t)] \in cs THEN RStrip(SubSeq(t, 1, Len(t) - 1), cs) ELSE t

\* str.strip(chars)
StripChars(t, cs) == RStrip(LStrip(t, cs), cs)

\* str.strip()
Strip(t) == StripChars(t, Whitespace)

\* ----------------------------------------------------------------- seo.py
UpperToLower ==
    [c \in {"A", "B", "C", "D", "E", "F", "G", "H", "I", "J", "K", "L", "M",
            "N", "O", "P", "Q", "R", "S", "T", "U", "V", "W", "X", "Y", "Z"} |->
        CASE c = "A" -> "a" [] c = "B" -> "b" [] c = "C" -> "c" [] c = "D" -> "d"
          [] c = "E" -> "e" [] c = "F" -> "f" [] c = "G" -> "g" [] c = "H" -> "h"
          [] c = "I" -> "i" [] c = "J" -> "j" [] c = "K" -> "k" [] c = "L" -> "l"
          [] c = "M" -> "m" [] c = "N" -> "n" [] c = "O" -> "o" [] c = "P" -> "p"
          [] c = "Q" -> "q" [] c = "R" -> "r" [] c = "S" -> "s" [] c = "T" -> "t"
          [] c = "U" -> "u" [] c = "V" -> "v" [] c = "W" -> "w" [] c = "X" -> "x"
          [] c = "Y" -> "y" [] c = "Z" -> "z"]

LowerLetters == {UpperToLower[c] : c \in DOMAIN UpperToLower}
Digits == {"0", "1", "2", "3", "4", "5", "6", "7", "8", "9"}

\* str.lower()
Lower(t) == [n \in 1..Len(t) |-> IF t[n] \in DOMAIN UpperToLower THEN UpperToLower[t[n]] ELSE t[n]]

\* re.sub(r"[\s_-]+", "-", text): every maximal run becomes one hyphen.
RECURSIVE CollapseRuns(_, _)
CollapseRuns(t, in_run) ==
    IF t = <<>> THEN <<>>
    ELSE IF Head(t) \in Whitespace \cup {"_", "-"}
         THEN (IF in_run THEN <<>> ELSE <<"-">>) \o CollapseRuns(Tail(t), TRUE)
         ELSE <<Head(t)>> \o CollapseRuns(Tail(t), FALSE)

IsSlugChar(c) == c \in LowerLetters \cup Digits \cup Whitespace \cup {"-"}

\* re.sub(r"[^a-z0-9\s-]", "", text)
RECURSIVE DropNonSlugChars(_)
DropNonSlugChars(t) ==
    IF t = <<>> THEN <<>>
    ELSE (IF IsSlugChar(Head(t)) THEN <<Head(t)>> ELSE <<>>) \o DropNonSlugChars(Tail(t))

\* A mutant of slugify: the hyphens at the ends are left in place.
slugify_untrimmed(text) == CollapseRuns(DropNonSlugChars(Strip(Lower(text))), FALSE)

slugify(text) ==
    StripChars(CollapseRuns(DropNonSlugChars(Strip(Lower(text))), FALSE), {"-"})

\* str.rfind(" "): the last position (1-based) of a space, 0 when there is none.
RFindSpace(t) ==
    IF \E n \in 1..Len(t) : t[n] = " "
    THEN CHOOSE n \in 1..Len(t) : t[n] = " " /\ \A m \in (n + 1)..Len(t) : t[m] # " "
    ELSE 0

clamp(text, max_len) ==
    IF Len(text) <= max_len THEN text
    ELSE LET sliced == RStrip(SubSeq(text, 1, max_len), Whitespace)
             last_space == RFindSpace(sliced)
         IN  IF last_space = 0 THEN sliced ELSE SubSeq(sliced, 1, last_space - 1)

\* The --topic values of the model and their characters.
Topics == {"seo"}
TopicChars == [tp \in Topics |-> <<"s", "e", "o">>]

\* [s["title"] for s in outline if s["level"] == "h2"]
RECURSIVE H2Titles(_)
H2Titles(ol) ==
    IF ol = <<>> THEN <<>>
    ELSE (IF Head(ol).level = "h2" THEN <<Head(ol).title>> ELSE <<>>) \o H2Titles(Tail(ol))

\* generate_metadata.  meta_description, primary_keywords and
\* secondary_keywords (templated sentences over the topic) are not part of
\* the model: no stage of the pipeline reads them.
generate_metadata(tp, hd, outline_h2) ==
    [title_tag |-> clamp(IF hd # <<>> THEN hd ELSE TopicChars[tp], 60),
     url_slug |-> slugify(IF hd # <<>> THEN hd ELSE TopicChars[tp]),
     table_of_contents |-> outline_h2]

\* ------------------------------------------------------ external services
\* Bound: the number of service replies of one run that may differ from the
\* nominal reply of the service (another text, another vector, a failure).
MaxOffNominal == 1

\* Python's None as a message content: no text equals it.
None == <<"<None>">>

\* content or dflt
OrElse(content, dflt) == IF content = None \/ content = <<>> THEN dflt ELSE content

\* The failure kinds of the Text Generation Service, in the order of the
\* except clauses of generate_section_text.
FailureKinds == {"authentication", "rate_limit", "connection", "status", "other"}

\* getattr(e, "message", str(e)) of an APIStatusError.
StatusDetails == {"Bad gateway", ""}

Raised(kind, detail) == [ok |-> FALSE, kind |-> kind, detail |-> detail]
Replied(content) == [ok |-> TRUE, content |-> content]

\* A reply costs one unit of quota unless it is the nominal reply.
Cost(reply, nominal) == IF reply = nominal THEN 0 ELSE 1

ServiceFailures ==
    {Raised(kd, "") : kd \in FailureKinds \ {"status"}} \cup {Raised("status", d) : d \in StatusDetails}

\* chat.completions.create in generate_section_text.
GenNominal == Replied(<<"a", ".">>)
GenContents == {<<"a", ".">>, <<"#", " ", "b", ".", "\n">>, None}
\* A response without choices: completion.choices[0] raises IndexError.
NoChoices == [ok |-> TRUE, content |-> None, no_choices |-> TRUE]
GenReplies(q) ==
    IF q > 0 THEN {Replied(c) : c \in GenContents} \cup ServiceFailures \cup {NoChoices}
    ELSE {GenNominal}

\* embeddings.create: one vector per input text.
Vectors == {<<3, 4>>, <<0, 5>>, <<0, 0>>}
NominalEmbedding(text) ==
    IF Strip(text) = <<>> THEN <<0, 0>>
    ELSE IF \E n \in 1..Len(text) : text[n] = "a" THEN <<3, 4>>
    ELSE <<0, 5>>

\* The replies to a request for one text.
EmbedReplies(text, q) ==
    IF q > 0 THEN {Replied(v) : v \in Vectors} \cup {Raised("connection", "")}
    ELSE {Replied(NominalEmbedding(text))}

\* The vector lists a request for the texts may be answered with, each with
\* the number of its vectors that differ from the nominal one (at most q).
RECURSIVE EmbedLists(_, _)
EmbedLists(texts, q) ==
    IF texts = <<>> THEN {[vs |-> <<>>, cost |-> 0]}
    ELSE UNION { { [vs |-> <<v>> \o r.vs, cost |-> r.cost + Cost(v, NominalEmbedding(Head(texts)))] :
                     r \in EmbedLists(Tail(texts), q - Cost(v, NominalEmbedding(Head(texts)))) } :
                 v \in {w \in Vectors : Cost(w, NominalEmbedding(Head(texts))) <= q} }

\* chat.completions.create in paraphrase_text.
ParaNominal == Replied(<<"c", ".">>)
ParaReplies(text, q) ==
    IF q > 0
    THEN {Replied(c) : c \in {<<"c", ".">>, <<" ", "c", ".">>, text, None}} \cup {Raised("connection", "")}
    ELSE {ParaNominal}

\* -------------------------------------------------- generate_section_text
\* A mutant of FailureMessage: the rate-limit clause carries the message of
\* the authentication clause.
FailureMessageCopied(reply) ==
    CASE reply.kind = "authentication" -> "OpenAI authentication failed. Verify OPENAI_API_KEY is correct."
      [] reply.kind = "rate_limit" -> "OpenAI authentication failed. Verify OPENAI_API_KEY is correct."
      [] reply.kind = "connection" -> "Network error communicating with OpenAI API. Check your connection."
      [] reply.kind = "status" -> "OpenAI API returned an error: " \o reply.detail
      [] OTHER -> "Unexpected error during content generation."

\* The message of the RuntimeError raised for a failed request.
FailureMessage(reply) ==
    CASE reply.kind = "authentication" -> "OpenAI authentication failed. Verify OPENAI_API_KEY is correct."
      [] reply.kind = "rate_limit" -> "OpenAI rate limit reached. Please wait and try again."
      [] reply.kind = "connection" -> "Network error communicating with OpenAI API. Check your connection."
      [] reply.kind = "status" -> "OpenAI API returned an error: " \o reply.detail
      [] OTHER -> "Unexpected error during content generation."

\* The outcome of generate_section_text for a reply of the service.
generate_section_text(reply) ==
    IF ~reply.ok THEN [raised |-> "RuntimeError", message |-> FailureMessage(reply)]
    ELSE IF "no_choices" \in DOMAIN reply THEN [raised |-> "IndexError", message |-> ""]
    ELSE [raised |-> "", text |-> Strip(OrElse(reply.content, <<>>))]

\* ------------------------------------------------------------ cosine_sim
Dot(a, b) == a[1] * b[1] + a[2] * b[2]

\* math.sqrt, exact on the squared norms of Vectors.
Sqrt(n) == CHOOSE r \in 0..n : r * r = n

\* The similarity as a fraction <<num, den>> with den > 0.
cosine_sim(a, b) ==
    LET na == Sqrt(Dot(a, a))
        nb == Sqrt(Dot(b, b))
    IN  IF na = 0 \/ nb = 0 THEN <<0, 1>> ELSE <<Dot(a, b), na * nb>>

\* x >= y for fractions with positive denominators.
FracGE(x, y) == x[1] * y[2] >= y[1] * x[2]

\* ------------------------------------------------------- paraphrase_text
\* (out.choices[0].message.content or text).strip()
paraphrase_text(reply, text) == Strip(OrElse(reply.content, text))

\* --------------------------------------------------------------- sections
Section(title, level, text) == [title |-> title, level |-> level, text |-> text]

Texts(ss) == [n \in 1..Len(ss) |-> ss[n].text]

\* The values the locals of a function have while it is not running.
NoSection == Section("", "", <<>>)

\* ----------------------------------------- dedupe_and_paraphrase_sections
\* Lines 282-286: the embeddings of all section texts, one request.
DdEmbedAll ==
    /\ pc = "dd_start"
    /\ \/ \E r \in EmbedLists(Texts(sections), quota) :
            /\ embs' = r.vs
            /\ quota' = quota - r.cost
            /\ calls' = Append(calls, [svc |-> "embed_all", n |-> Len(sections), ok |-> TRUE])
            /\ keep' = <<>>
            /\ i' = 1
            /\ pc' = "dd_loop"
       \/ /\ quota > 0
          /\ quota' = quota - 1
          /\ calls' = Append(calls, [svc |-> "embed_all", n |-> Len(sections), ok |-> FALSE])
          /\ pc' = "dd_raised"
          /\ UNCHANGED <<embs, keep, i>>
    /\ UNCHANGED <<diskVars, fnVars, inputVars, cliVars, sections, threshold, k, sec, poVars, mrVars>>

\* Lines 287-288 and 298: the head of the outer loop, and the return.
DdLoop ==
    /\ pc = "dd_loop"
    /\ IF i <= Len(sections)
       THEN /\ sec' = sections[i]
            /\ k' = 1
            /\ pc' = "dd_inner"
       ELSE /\ pc' = "dd_returned"
            /\ UNCHANGED <<sec, k>>
    /\ UNCHANGED <<diskVars, fnVars, inputVars, cliVars, sections, threshold, embs, keep, i, poVars, mrVars, envVars>>

\* A mutant of IsDuplicate: the comparison is strict.
IsDuplicateStrict(sim, thr) == ~FracGE(thr, sim)

\* A mutant of IsDuplicate: the comparison is the wrong way round.
IsDuplicateFlipped(sim, thr) == FracGE(thr, sim)

\* Line 292: sim >= threshold.
IsDuplicate(sim, thr) == FracGE(sim, thr)

\* Lines 289-292: one comparison with a kept section, whose current text is
\* embedded by a request of its own.
DdCompare ==
    /\ pc = "dd_inner"
    /\ k <= Len(keep)
    /\ \E reply \in EmbedReplies(keep[k].text, quota) :
          /\ quota' = quota - Cost(reply, Replied(NominalEmbedding(keep[k].text)))
          /\ IF reply.ok
             THEN LET sim == cosine_sim(embs[i], reply.content)
                  IN  /\ calls' = Append(calls, [svc |-> "embed", i |-> i, k |-> k, ok |-> TRUE,
                                                 kept_text |-> keep[k].text, sim |-> sim,
                                                 hit |-> FracGE(sim, threshold)])
                      /\ IF IsDuplicate(sim, threshold)
                         THEN pc' = "dd_paraphrase" /\ k' = k
                         ELSE pc' = "dd_inner" /\ k' = k + 1
             ELSE /\ calls' = Append(calls, [svc |-> "embed", i |-> i, k |-> k, ok |-> FALSE])
                  /\ pc' = "dd_raised"
                  /\ k' = k
    /\ UNCHANGED <<diskVars, fnVars, inputVars, cliVars, sections, threshold, embs, keep, i, sec, poVars, mrVars>>

\* A mutant of KeepSection: a section that was paraphrased replaces the kept
\* section it collided with.
KeepSectionOverwrite(kept, s, collided) ==
    IF collided > 0 THEN [kept EXCEPT ![collided] = s] ELSE Append(kept, s)

\* A mutant of KeepSection: the section is put in front of the kept ones.
KeepSectionFront(kept, s, collided) == <<s>> \o kept

\* Line 297: keep.append(sec); collided is the position of the kept section
\* the loop stopped at, 0 when there was none.
KeepSection(kept, s, collided) == Append(kept, s)

\* Lines 293-297: the paraphrase request for a duplicate, and the append.
DdParaphrase ==
    /\ pc = "dd_paraphrase"
    /\ \E reply \in ParaReplies(sec.text, quota) :
          /\ quota' = quota - Cost(reply, ParaNominal)
          /\ IF reply.ok
             THEN /\ calls' = Append(calls, [svc |-> "paraphrase", i |-> i, ok |-> TRUE,
                                             content |-> reply.content])
                  /\ sec' = [sec EXCEPT !.text = paraphrase_text(reply, sec.text)]
                  /\ keep' = KeepSection(keep, sec', k)
                  /\ i' = i + 1
                  /\ pc' = "dd_loop"
             ELSE /\ calls' = Append(calls, [svc |-> "paraphrase", i |-> i, ok |-> FALSE])
                  /\ pc' = "dd_raised"
                  /\ UNCHANGED <<sec, keep, i>>
    /\ UNCHANGED <<diskVars, fnVars, inputVars, cliVars, sections, threshold, embs, k, poVars, mrVars>>

\* Line 297 when the inner loop ran to its end: the section is kept as it is.
DdKeep ==
    /\ pc = "dd_inner"
    /\ k > Len(keep)
    /\ keep' = KeepSection(keep, sec, 0)
    /\ i' = i + 1
    /\ pc' = "dd_loop"
    /\ UNCHANGED <<diskVars, fnVars, inputVars, cliVars, sections, threshold, embs, k, sec, poVars, mrVars, envVars>>

Dedupe == DdEmbedAll \/ DdLoop \/ DdCompare \/ DdParaphrase \/ DdKeep

\* -------------------------------------------------------- polishing helpers
\* The position of the first element of t that is in cs, 0 when there is none.
FirstIn(t, cs) ==
    IF \E n \in 1..Len(t) : t[n] \in cs
    THEN CHOOSE n \in 1..Len(t) : t[n] \in cs /\ \A m \in 1..(n - 1) : t[m] \notin cs
    ELSE 0

\* str.splitlines(): no last empty line after a final line end.
RECURSIVE SplitLines(_)
SplitLines(t) ==
    IF t = <<>> THEN <<>>
    ELSE LET n == FirstIn(t, {"\n"})
         IN  IF n = 0 THEN <<t>>
             ELSE <<SubSeq(t, 1, n - 1)>> \o SplitLines(SubSeq(t, n + 1, Len(t)))

\* re.split(r"[.!?]", t): the pieces between the separators, empty ones too.
RECURSIVE SplitSentences(_)
SplitSentences(t) ==
    LET n == FirstIn(t, {".", "!", "?"})
    IN  IF n = 0 THEN <<t>>
        ELSE <<SubSeq(t, 1, n - 1)>> \o SplitSentences(SubSeq(t, n + 1, Len(t)))

\* sep.join(parts)
RECURSIVE Join(_, _)
Join(parts, sep) ==
    IF parts = <<>> THEN <<>>
    ELSE IF Len(parts) = 1 THEN parts[1]
    ELSE parts[1] \o sep \o Join(Tail(parts), sep)

\* The number of "#" a line starts with.
RECURSIVE LeadingHashes(_)
LeadingHashes(line) ==
    IF line # <<>> /\ Head(line) = "#" THEN 1 + LeadingHashes(Tail(line)) ELSE 0

\* re.sub(r"^(#{1,6})\s+", "", line): one to six "#" followed by whitespace.
StripHeadingMarker(line) ==
    LET h == LeadingHashes(line)
    IN  IF h >= 1 /\ h <= 6 /\ Len(line) > h /\ line[h + 1] \in Whitespace
        THEN LStrip(SubSeq(line, h + 1, Len(line)), Whitespace)
        ELSE line

\* line.replace("**", ""): left to right, without overlap.
RECURSIVE RemoveEmphasis(_)
RemoveEmphasis(line) ==
    IF Len(line) < 2 THEN line
    ELSE IF line[1] = "*" /\ line[2] = "*" THEN RemoveEmphasis(SubSeq(line, 3, Len(line)))
    ELSE <<line[1]>> \o RemoveEmphasis(Tail(line))

strip_markdown_headings(text) ==
    LET lines == SplitLines(text)
    IN  Join([n \in 1..Len(lines) |-> RemoveEmphasis(StripHeadingMarker(lines[n]))], <<"\n">>)

\* The non-empty elements of a sequence of texts.
RECURSIVE NonEmpty(_)
NonEmpty(ts) ==
    IF ts = <<>> THEN <<>>
    ELSE (IF Head(ts) # <<>> THEN <<Head(ts)>> ELSE <<>>) \o NonEmpty(Tail(ts))

FirstN(s, n) == SubSeq(s, 1, Min2(n, Len(s)))

\* Line 235-236: the sentences of the text, trimmed, the empty ones dropped.
FallbackBullets(section_text) ==
    LET parts == SplitSentences(section_text)
    IN  FirstN(NonEmpty([n \in 1..Len(parts) |-> Strip(parts[n])]), 5)

\* A mutant of summarize_key_takeaways: a failed request yields no bullets.
summarize_key_takeaways_no_fallback(reply, section_text) ==
    IF reply.ok /\ "no_choices" \notin DOMAIN reply
    THEN LET lines == SplitLines(Strip(OrElse(reply.content, <<>>)))
             nonblank == NonEmpty([n \in 1..Len(lines) |-> IF Strip(lines[n]) = <<>> THEN <<>> ELSE lines[n]])
         IN  FirstN(NonEmpty([n \in 1..Len(nonblank) |-> StripChars(nonblank[n], {"-", " "})]), 5)
    ELSE <<>>

\* summarize_key_takeaways for a reply of the service: every exception of
\* the try block (a failed request, a response without choices) takes the
\* fallback.
summarize_key_takeaways(reply, section_text) ==
    IF reply.ok /\ "no_choices" \notin DOMAIN reply
    THEN LET lines == SplitLines(Strip(OrElse(reply.content, <<>>)))
             nonblank == NonEmpty([n \in 1..Len(lines) |-> IF Strip(lines[n]) = <<>> THEN <<>> ELSE lines[n]])
         IN  FirstN(NonEmpty([n \in 1..Len(nonblank) |-> StripChars(nonblank[n], {"-", " "})]), 5)
    ELSE FallbackBullets(section_text)

\* "\n".join([f"- {b}" for b in bullets])
BulletText(bullets) == Join([n \in 1..Len(bullets) |-> <<"-", " ">> \o bullets[n]], <<"\n">>)

\* chat.completions.create in summarize_key_takeaways.
SumNominal == Replied(<<"-", " ", "x", "\n", "-", " ", "y">>)
SumReplies(q) ==
    IF q > 0
    THEN {Replied(c) : c \in {<<"-", " ", "x", "\n", "-", " ", "y">>, <<"-", "\n", " ">>, None}}
         \cup {Raised("rate_limit", ""), NoChoices}
    ELSE {SumNominal}

\* ---------------------------------------------------------- polish_sections
\* A mutant of WithTakeaways: the section is appended whatever the bullets.
WithTakeawaysAlways(cleaned, bullets) ==
    Append(cleaned, Section("Key Takeaways", "h3", BulletText(bullets)))

\* Lines 246-248: the "Key Takeaways" section, appended if there are bullets.
WithTakeaways(cleaned, bullets) ==
    IF bullets # <<>>
    THEN Append(cleaned, Section("Key Takeaways", "h3", BulletText(bullets)))
    ELSE cleaned

\* One iteration of the loop of lines 241-248, with its request.
PoSection ==
    /\ pc = "po_loop"
    /\ p <= Len(sections)
    /\ LET s == sections[p]
           clean_text == strip_markdown_headings(s.text)
           cleaned == Append(polished, Section(s.title, s.level, clean_text))
       IN  IF s.level = "h2"
           THEN \E reply \in SumReplies(quota) :
                   LET bullets == summarize_key_takeaways(reply, clean_text)
                   IN  /\ quota' = quota - Cost(reply, SumNominal)
                       /\ calls' = Append(calls, [svc |-> "summarize", i |-> p, at |-> Len(cleaned),
                                                  ok |-> reply.ok /\ "no_choices" \notin DOMAIN reply,
                                                  bullets |-> bullets])
                       /\ polished' = WithTakeaways(cleaned, bullets)
           ELSE /\ polished' = cleaned
                /\ UNCHANGED envVars
    /\ p' = p + 1
    /\ UNCHANGED <<diskVars, fnVars, pc, inputVars, cliVars, sections, threshold, embs, keep, i, k, sec, mrVars>>

\* Line 249: return polished.
PoReturn ==
    /\ pc = "po_loop"
    /\ p > Len(sections)
    /\ pc' = "po_returned"
    /\ UNCHANGED <<diskVars, fnVars, inputVars, cliVars, ddVars, poVars, mrVars, envVars>>

Polish == PoSection \/ PoReturn

\* ----------------------------------------------------- micro_refine_article
\* The content of a response is modelled by what json.loads makes of it:
\* doc "none" (no content, read as ""), "invalid" (not JSON), "array" and
\* "string" (JSON, but no object) or "object" with its fields; a field value
\* is tagged with its JSON type.
JNull == [t |-> "null", v |-> <<>>]
JString == [t |-> "string", v |-> <<>>]
JDict(v) == [t |-> "dict", v |-> v]
JList(v) == [t |-> "list", v |-> v]
Absent == [t |-> "absent", v |-> <<>>]

Document(doc) == [doc |-> doc, fields |-> <<>>]
Object(meta, sects) ==
    [doc |-> "object",
     fields |-> (IF meta = Absent THEN <<>> ELSE [x \in {"metadata"} |-> meta])
                @@ (IF sects = Absent THEN <<>> ELSE [x \in {"sections"} |-> sects])]

\* dict.get(key, default)
DictGet(fields, key, default) == IF key \in DOMAIN fields THEN fields[key] ELSE default

RECURSIVE Reverse(_)
Reverse(s) == IF s = <<>> THEN <<>> ELSE Append(Reverse(Tail(s)), Head(s))

\* What the service may send back for an article.
RefinedMeta(md) == [md EXCEPT !.title_tag = <<"r">>]
SimplifiedMeta(md) == [title_tag |-> <<"r">>]
Rewritten(ss) == [n \in 1..Len(ss) |-> [ss[n] EXCEPT !.text = <<"r", ".">>]]
Restructured(ss) == IF ss = <<>> THEN <<>> ELSE Reverse(Tail(ss))

MrNominal(md, ss) == Replied(Object(JDict(RefinedMeta(md)), JList(Rewritten(ss))))
MrReplies(md, ss, q) ==
    IF q > 0
    THEN {Replied(Object(m, s)) :
              m \in {Absent, JNull, JDict(RefinedMeta(md)), JDict(SimplifiedMeta(md))},
              s \in {Absent, JString, JList(Rewritten(ss)), JList(Restructured(ss))}}
         \cup {Replied(Document(d)) : d \in {"none", "invalid", "array", "string"}}
         \cup {Raised("connection", ""), [ok |-> TRUE, content |-> Document("none"), no_choices |-> TRUE]}
    ELSE {MrNominal(md, ss)}

\* A mutant of ValidShape: one field of the right shape is enough.
ValidShapeEither(new_meta, new_sections) == new_meta.t = "dict" \/ new_sections.t = "list"

\* Line 353: isinstance(new_meta, dict) and isinstance(new_sections, list).
ValidShape(new_meta, new_sections) == new_meta.t = "dict" /\ new_sections.t = "list"

\* A mutant of micro_refine_article: the fields of the response are returned
\* without the check of their shapes.
micro_refine_article_unchecked(reply, md, ss) ==
    IF ~reply.ok \/ "no_choices" \in DOMAIN reply THEN [raised |-> TRUE, meta |-> md, sections |-> ss]
    ELSE IF reply.content.doc # "object"
         THEN [raised |-> FALSE, meta |-> md, sections |-> ss]
    ELSE [raised |-> FALSE,
          meta |-> DictGet(reply.content.fields, "metadata", JDict(md)).v,
          sections |-> DictGet(reply.content.fields, "sections", JList(ss)).v]

\* micro_refine_article for a reply of the service.  The request and the
\* read of choices[0] (lines 337-347) are outside the try block.
micro_refine_article(reply, md, ss) ==
    IF ~reply.ok \/ "no_choices" \in DOMAIN reply THEN [raised |-> TRUE, meta |-> md, sections |-> ss]
    ELSE IF reply.content.doc # "object"
         \* json.loads raises, or data.get raises AttributeError: except Exception.
         THEN [raised |-> FALSE, meta |-> md, sections |-> ss]
    ELSE LET new_meta == DictGet(reply.content.fields, "metadata", JDict(md))
             new_sections == DictGet(reply.content.fields, "sections", JList(ss))
         IN  IF ValidShape(new_meta, new_sections)
             THEN [raised |-> FALSE, meta |-> new_meta.v, sections |-> new_sections.v]
             ELSE [raised |-> FALSE, meta |-> md, sections |-> ss]

\* The call of micro_refine_article(heading, metadata, sections).
MrCall ==
    /\ pc = "mr_start"
    /\ \E reply \in MrReplies(metadata, sections, quota) :
          LET out == micro_refine_article(reply, metadata, sections)
          IN  /\ quota' = quota - Cost(reply, MrNominal(metadata, sections))
              /\ calls' = Append(calls, [svc |-> "refine", ok |-> ~out.raised,
                                         replied |-> reply.ok /\ "no_choices" \notin DOMAIN reply,
                                         content |-> IF reply.ok THEN reply.content ELSE Document("none")])
              /\ IF out.raised
                 THEN pc' = "mr_raised" /\ UNCHANGED mr_result
                 ELSE pc' = "mr_returned" /\ mr_result' = <<out.meta, out.sections>>
    /\ UNCHANGED <<diskVars, fnVars, inputVars, cliVars, ddVars, poVars>>

\* ------------------------------------------------------------ research.py
\* The content of the cache file: state "absent" (no file), "unreadable"
\* (json.load raises) or "dict" with the entries of the JSON object.
CacheAbsent == [state |-> "absent", entries |-> <<>>]
CacheUnreadable == [state |-> "unreadable", entries |-> <<>>]
CacheDict(entries) == [state |-> "dict", entries |-> entries]

\* _cache_key: the SHA-256 digest of f"{topic}|{deep}", modelled by the pair
\* it is computed from (deep is rendered last, so the pair determines the
\* string and the string the pair).
cache_key(tp, dp) == <<tp, dp>>

\* _ensure_cache: the file is created with {} when it does not exist.
ensure_cache(file) == IF file.state = "absent" THEN CacheDict(<<>>) ELSE file

\* _load_cache, after _ensure_cache: {} when the file cannot be read.
load_cache(file) == IF ensure_cache(file).state = "dict" THEN ensure_cache(file).entries ELSE <<>>

\* The entries of the log for the writes of the cache file.
CacheCreated == [svc |-> "cache_file", op |-> "create"]
CacheSaved(key) == [svc |-> "cache_file", op |-> "save", key |-> key]

\* The results of the research provider: items with a title and a content.
SearchItem(title, content) == [title |-> title, content |-> content]
SearchResults ==
    { <<>>,
      <<SearchItem(<<"A">>, <<"x">>)>>,
      <<SearchItem(<<"A">>, <<"x">>), SearchItem(None, <<"y">>), SearchItem(<<"A">>, None)>> }
SearchNominal == Replied(<<>>)
SearchReplies(q) ==
    IF q > 0 THEN {Replied(r) : r \in SearchResults} \cup {Raised("connection", "")}
    ELSE {SearchNominal}

\* dedupe of perform_research: the first occurrences, in order.
RECURSIVE DedupeSeq(_, _)
DedupeSeq(seq, seen) ==
    IF seq = <<>> THEN <<>>
    ELSE IF Head(seq) \in seen THEN DedupeSeq(Tail(seq), seen)
    ELSE <<Head(seq)>> \o DedupeSeq(Tail(seq), seen \cup {Head(seq)})

\* Lines 69-107: the bundle built from the results.  url and raw_content of a
\* source and the keywords of the bundle are not part of the model: no stage
\* of the pipeline that is modelled reads them.
BundleOf(results) ==
    LET sources == [n \in 1..Len(results) |->
                       [title |-> OrElse(results[n].title, <<>>),
                        snippet |-> OrElse(results[n].content, <<>>)]]
        first8 == SubSeq(sources, 1, Min2(8, Len(sources)))
        titles == NonEmpty([n \in 1..Len(first8) |-> first8[n].title])
        insights == DedupeSeq(titles, {})
    IN  [sources |-> sources,
         insights |-> SubSeq(insights, 1, Min2(20, Len(insights))),
         keywords |-> <<>>]

\* A mutant of SaveEntry: an entry that is there is replaced too, and the
\* others are dropped.
SaveEntryAlone(cache, key, bundle) == (key :> bundle)

\* Line 109: cache[key] = research.
SaveEntry(cache, key, bundle) == (key :> bundle) @@ cache

\* Line 53: key in cache.
CacheHit(file, tp, dp) == cache_key(tp, dp) \in DOMAIN load_cache(file)

\* perform_research for a reply of the provider (not read on a cache hit):
\* what it raises or returns, the cache file it leaves, and what it logs.
perform_research(file, tp, dp, reply) ==
    LET cache == load_cache(file)
        key == cache_key(tp, dp)
        created == IF file.state = "absent" THEN <<CacheCreated>> ELSE <<>>
    IN  IF CacheHit(file, tp, dp)
        THEN [raised |-> FALSE, research |-> cache[key], file |-> ensure_cache(file), log |-> created]
        ELSE IF ~reply.ok
        THEN [raised |-> TRUE, research |-> None, file |-> ensure_cache(file),
              log |-> created \o <<[svc |-> "research", key |-> key, ok |-> FALSE]>>]
        ELSE [raised |-> FALSE, research |-> BundleOf(reply.content),
              file |-> CacheDict(SaveEntry(cache, key, BundleOf(reply.content))),
              log |-> created \o <<[svc |-> "research", key |-> key, ok |-> TRUE], CacheSaved(key)>>]

\* ---------------------------------------------------- build_tagged_evidence
\* Characters outside ASCII, each written as one element of a text.
EmDash == "<em dash>"
LeftQuote == "<left double quote>"
RightQuote == "<right double quote>"

\* \w of the regular expressions.
IsWordChar(c) == c \in LowerLetters \cup DOMAIN UpperToLower \cup Digits \cup {"_"}

\* \b before the digit at position n, and after the digit at position n.
BoundaryBefore(t, n) == n = 1 \/ ~IsWordChar(t[n - 1])
BoundaryAfter(t, n) == n = Len(t) \/ ~IsWordChar(t[n + 1])

\* The last position of the run of digits that holds position n.
RECURSIVE DigitRunEnd(_, _)
DigitRunEnd(t, n) == IF n < Len(t) /\ t[n + 1] \in Digits THEN DigitRunEnd(t, n + 1) ELSE n

\* The positions a match of \b\d... can start at.
NumberStarts(t) == {n \in 1..Len(t) : t[n] \in Digits /\ BoundaryBefore(t, n)}

\* re.search(r"\b\d{1,3}%", text)
HasPercent(t) ==
    \E n \in NumberStarts(t) :
        /\ DigitRunEnd(t, n) - n + 1 <= 3
        /\ DigitRunEnd(t, n) < Len(t)
        /\ t[DigitRunEnd(t, n) + 1] = "%"

\* re.search(r"\b\d{4}\b", text)
HasFourDigits(t) ==
    \E n \in NumberStarts(t) : DigitRunEnd(t, n) - n + 1 = 4 /\ BoundaryAfter(t, DigitRunEnd(t, n))

\* re.search(r"\b\d+[,.]\d+\b", text)
HasDecimal(t) ==
    \E n \in NumberStarts(t) :
        LET e == DigitRunEnd(t, n)
        IN  /\ e + 2 <= Len(t)
            /\ t[e + 1] \in {",", "."}
            /\ t[e + 2] \in Digits
            /\ BoundaryAfter(t, DigitRunEnd(t, e + 2))

\* re.search(r"\b\d+\b", text)
HasNumber(t) == \E n \in NumberStarts(t) : BoundaryAfter(t, DigitRunEnd(t, n))

\* word in text
Contains(t, word) == \E n \in 1..(Len(t) - Len(word) + 1) : SubSeq(t, n, n + Len(word) - 1) = word

CaseWords ==
    { <<"c", "a", "s", "e", " ", "s", "t", "u", "d", "y">>, <<"c", "a", "s", "e">>,
      <<"e", "x", "a", "m", "p", "l", "e">> }
ToolWords ==
    { <<"t", "o", "o", "l">>, <<"p", "l", "a", "t", "f", "o", "r", "m">>,
      <<"s", "o", "f", "t", "w", "a", "r", "e">>, <<"s", "u", "i", "t", "e">> }

TagStat == <<"[", "s", "t", "a", "t", "]">>
TagQuote == <<"[", "q", "u", "o", "t", "e", "]">>
TagCase == <<"[", "c", "a", "s", "e", "]">>
TagTool == <<"[", "t", "o", "o", "l", "]">>

\* Lines 76-86: the tag of an evidence text.
EvidenceTag(text) ==
    IF HasPercent(text) \/ HasFourDigits(text) \/ HasDecimal(text) THEN TagStat
    ELSE IF \E n \in 1..Len(text) : text[n] \in {LeftQuote, RightQuote, "\""} THEN TagQuote
    ELSE IF \E w \in CaseWords : Contains(Lower(text), w) THEN TagCase
    ELSE IF \E w \in ToolWords : Contains(Lower(text), w) THEN TagTool
    ELSE IF HasNumber(text) THEN TagStat
    ELSE TagCase

\* Lines 71-73: f"{title} — {snippet}".strip(" —")
EvidenceText(s) ==
    StripChars(Strip(OrElse(s.title, <<>>)) \o <<" ", EmDash, " ">> \o Strip(OrElse(s.snippet, <<>>)),
               {" ", EmDash})

\* Line 87: f"{tag} {text}"
EvidenceItem(s) == EvidenceTag(EvidenceText(s)) \o <<" ">> \o EvidenceText(s)

\* A mutant of FirstSources: all sources are read.
FirstSourcesAll(sources) == sources

\* Line 70: research.get("sources", [])[:12]
FirstSources(sources) == SubSeq(sources, 1, Min2(12, Len(sources)))

\* Lines 69-87: the items of the sources that have a text.
RECURSIVE EvidenceItems(_)
EvidenceItems(sources) ==
    IF sources = <<>> THEN <<>>
    ELSE (IF EvidenceText(Head(sources)) = <<>> THEN <<>> ELSE <<EvidenceItem(Head(sources))>>)
         \o EvidenceItems(Tail(sources))

build_tagged_evidence(bundle) ==
    LET uniq == DedupeSeq(EvidenceItems(FirstSources(bundle.sources)), {})
    IN  SubSeq(uniq, 1, Min2(12, Len(uniq)))

\* -------------------------------------------------------------------- cli
\* The sizes the pipeline is run on: outlines of 8 and of 10 entries.
PipelineWordCounts == {700, 1160}
Headings == {<<"T", "o", "p", " ", "1", "!">>}
PipelineDeepFlags == {FALSE}
Formats == {"txt", "docx", "pdf", "all"}
ResearchBundle == BundleOf(<<>>)

\* A mutant of SectionsOf: only the H2 entries are kept.
RECURSIVE SectionsOfH2Only(_)
SectionsOfH2Only(ol) ==
    IF ol = <<>> THEN <<>>
    ELSE (IF Head(ol).level = "h2" THEN <<Head(ol)>> ELSE <<>>) \o SectionsOfH2Only(Tail(ol))

\* Line 115: [s for s in outline if s["level"] in {"h2", "h3"}]
RECURSIVE SectionsOf(_)
SectionsOf(ol) ==
    IF ol = <<>> THEN <<>>
    ELSE (IF Head(ol).level \in {"h2", "h3"} THEN <<Head(ol)>> ELSE <<>>) \o SectionsOf(Tail(ol))

\* Lines 94-101: the research, fatal when it fails.
CliResearch ==
    /\ pc = "start"
    /\ \E reply \in (IF CacheHit(cache_file, topic, deep) THEN {SearchNominal} ELSE SearchReplies(quota)) :
          LET out == perform_research(cache_file, topic, deep, reply)
          IN  /\ quota' = quota - Cost(reply, SearchNominal)
              /\ calls' = calls \o out.log
              /\ cache_file' = out.file
              /\ IF out.raised
                 THEN /\ printed' = Append(printed, "Research failed")
                      /\ exit_code' = 1
                      /\ pc' = "exited"
                      /\ UNCHANGED research
                 ELSE /\ research' = out.research
                      /\ pc' = "plan"
                      /\ UNCHANGED <<printed, exit_code>>
    /\ UNCHANGED <<fnVars, inputVars, outline, metadata, idx, generated_sections, exported, ddVars, poVars, mrVars>>

\* Lines 103-120: the outline, the metadata, an empty section list.
CliPlan ==
    /\ pc = "plan"
    /\ outline' = generate_outline(topic, word_count)
    /\ metadata' = generate_metadata(topic, heading, H2Titles(outline'))
    /\ idx' = 1
    /\ generated_sections' = <<>>
    /\ pc' = "generate"
    /\ UNCHANGED <<diskVars, fnVars, inputVars, research, printed, exit_code, exported, ddVars, poVars, mrVars, envVars>>

\* A mutant of OnGenerationError: the failed section is skipped and the loop
\* goes on.
OnGenerationErrorContinue(out) ==
    /\ printed' = Append(printed, out.message)
    /\ idx' = idx + 1
    /\ UNCHANGED <<pc, exit_code, generated_sections>>

\* Lines 136-139: except RuntimeError: print the message, "Aborting.", exit 1.
OnGenerationError(out) ==
    /\ printed' = printed \o <<out.message, "Aborting.">>
    /\ exit_code' = 1
    /\ pc' = "exited"
    /\ UNCHANGED <<idx, generated_sections>>

\* Lines 121-140: one iteration of the generation loop, with its request.
CliGenerate ==
    /\ pc = "generate"
    /\ idx <= Len(SectionsOf(outline))
    /\ \E reply \in GenReplies(quota) :
          LET section == SectionsOf(outline)[idx]
              out == generate_section_text(reply)
          IN  /\ quota' = quota - Cost(reply, GenNominal)
              /\ calls' = Append(calls, [svc |-> "generate", i |-> idx, ok |-> out.raised = "",
                                         kind |-> IF reply.ok THEN "" ELSE reply.kind,
                                         detail |-> IF reply.ok THEN "" ELSE reply.detail])
              /\ CASE out.raised = "RuntimeError" -> OnGenerationError(out)
                   [] out.raised = "IndexError" ->
                        \* not a RuntimeError: nothing catches it
                        /\ exit_code' = 1
                        /\ pc' = "crashed"
                        /\ UNCHANGED <<idx, generated_sections, printed>>
                   [] OTHER ->
                        /\ generated_sections' =
                              Append(generated_sections, Section(section.title, section.level, out.text))
                        /\ idx' = idx + 1
                        /\ UNCHANGED <<pc, printed, exit_code>>
    /\ UNCHANGED <<diskVars, fnVars, inputVars, research, outline, metadata, exported, ddVars, poVars, mrVars>>

\* A mutant of CliCallDedupe: the Deduplicator is called as soon as one
\* section has been generated.
CliCallDedupeEarly ==
    /\ pc = "generate"
    /\ idx > 1
    /\ sections' = generated_sections
    /\ threshold' = <<9, 10>>
    /\ pc' = "dd_start"
    /\ UNCHANGED <<diskVars, fnVars, inputVars, cliVars, embs, keep, i, k, sec, poVars, mrVars, envVars>>

\* Lines 142-144: the call of dedupe_and_paraphrase_sections.
CliCallDedupe ==
    /\ pc = "generate"
    /\ idx > Len(SectionsOf(outline))
    /\ sections' = generated_sections
    /\ threshold' = <<9, 10>>
    /\ pc' = "dd_start"
    /\ UNCHANGED <<diskVars, fnVars, inputVars, cliVars, embs, keep, i, k, sec, poVars, mrVars, envVars>>

\* An exception of dedupe_and_paraphrase_sections or micro_refine_article:
\* cli has no handler for it, the process ends with a traceback.
CliUncaught ==
    /\ pc \in {"dd_raised", "mr_raised"}
    /\ exit_code' = 1
    /\ pc' = "crashed"
    /\ UNCHANGED <<diskVars, fnVars, inputVars, research, outline, metadata, idx, generated_sections, printed, exported,
                   ddVars, poVars, mrVars, envVars>>

\* Lines 144-149: the result of the Deduplicator; --polish decides whether
\* polish_sections is called (the flag is drawn here, where cli reads it).
CliAfterDedupe ==
    /\ pc = "dd_returned"
    /\ generated_sections' = keep
    /\ embs' = <<>> /\ keep' = <<>> /\ i' = 0 /\ k' = 0 /\ sec' = NoSection
    /\ threshold' = <<0, 1>>
    /\ \E flag \in BOOLEAN :
          /\ polish' = flag
          /\ IF flag
             THEN /\ sections' = generated_sections'
                  /\ polished' = <<>>
                  /\ p' = 1
                  /\ pc' = "po_loop"
             ELSE /\ sections' = <<>>
                  /\ pc' = "export"
                  /\ UNCHANGED poVars
    /\ UNCHANGED <<diskVars, fnVars, topic, heading, word_count, deep, output_format, research, outline, metadata, idx, printed,
                   exit_code, exported, mrVars, envVars>>

\* Lines 149-153: the result of polish_sections, the call of micro_refine_article.
CliAfterPolish ==
    /\ pc = "po_returned"
    /\ generated_sections' = polished
    /\ sections' = polished
    /\ polished' = <<>>
    /\ p' = 0
    /\ pc' = "mr_start"
    /\ UNCHANGED <<diskVars, fnVars, inputVars, research, outline, metadata, idx, printed, exit_code, exported,
                   threshold, embs, keep, i, k, sec, mrVars, envVars>>

\* Lines 151-158: metadata, generated_sections = the returned pair.
CliAfterRefine ==
    /\ pc = "mr_returned"
    /\ metadata' = mr_result[1]
    /\ generated_sections' = mr_result[2]
    /\ mr_result' = None
    /\ sections' = <<>>
    /\ pc' = "export"
    /\ UNCHANGED <<diskVars, fnVars, inputVars, research, outline, idx, printed, exit_code, exported,
                   threshold, embs, keep, i, k, sec, poVars, envVars>>

\* The exporters --format selects, in the order cli calls them.
ExportersOf(fmt) ==
    (IF fmt \in {"txt", "all"} THEN <<"export_txt">> ELSE <<>>)
    \o (IF fmt \in {"docx", "all"} THEN <<"export_docx">> ELSE <<>>)
    \o (IF fmt \in {"pdf", "all"} THEN <<"export_pdf">> ELSE <<>>)

\* Lines 160-212: the slug and the exports (--format is drawn here, where
\* cli reads it).  metadata["url_slug"] raises KeyError when the key is
\* not there.
CliExport ==
    /\ pc = "export"
    /\ \E fmt \in Formats :
          /\ output_format' = fmt
          /\ IF "url_slug" \in DOMAIN metadata
             THEN /\ exported' = ExportersOf(fmt)
                  /\ printed' = Append(printed, "Blog generated successfully.")
                  /\ exit_code' = 0
                  /\ pc' = "done"
             ELSE /\ exit_code' = 1
                  /\ pc' = "crashed"
                  /\ UNCHANGED <<exported, printed>>
    /\ UNCHANGED <<diskVars, fnVars, topic, heading, word_count, deep, polish, research, outline, metadata, idx, generated_sections,
                   ddVars, poVars, mrVars, envVars>>

Cli ==
    \/ CliResearch \/ CliPlan \/ CliGenerate \/ CliCallDedupe \/ CliUncaught
    \/ CliAfterDedupe \/ CliAfterPolish \/ CliAfterRefine \/ CliExport

\* The state of the variables no function has touched yet.
Untouched ==
    /\ polish = FALSE /\ output_format = ""
    /\ outline = <<>> /\ metadata = None /\ idx = 0
    /\ generated_sections = <<>> /\ printed = <<>> /\ exit_code = -1 /\ exported = <<>>
    /\ sections = <<>> /\ threshold = <<0, 1>>
    /\ embs = <<>> /\ keep = <<>> /\ i = 0 /\ k = 0 /\ sec = NoSection
    /\ polished = <<>> /\ p = 0
    /\ mr_result = None
    /\ calls = <<>>
    /\ args = <<>> /\ result = <<>>

Init ==
    /\ pc = "start"
    /\ topic \in Topics
    /\ heading \in Headings
    /\ word_count \in PipelineWordCounts
    /\ deep \in PipelineDeepFlags
    /\ cache_file \in {CacheAbsent, CacheDict(cache_key(topic, deep) :> ResearchBundle)}
    /\ research = None
    /\ quota = MaxOffNominal
    /\ Untouched

Next == Cli \/ Dedupe \/ Polish \/ MrCall

Spec == Init /\ [][Next]_vars

\* --------------------------------------------------- generate_outline alone
\* Bound: the largest target word count the planner is run on by itself.
MaxWords == 3100

InitOutline ==
    /\ pc = "plan"
    /\ topic \in Topics
    /\ heading \in Headings
    /\ word_count \in 1..MaxWords
    /\ deep = FALSE
    /\ cache_file = CacheAbsent
    /\ research = ResearchBundle
    /\ quota = 0
    /\ Untouched

NextOutline == CliPlan

SpecOutline == InitOutline /\ [][NextOutline]_vars

\* ------------------------------------- dedupe_and_paraphrase_sections alone
\* Bound: the longest section list the function is run on by itself.
MaxSections == 3

\* The titles and levels of the sections of such a list, by position.
TitleAt(n) == IF n = 1 THEN "Introduction" ELSE IF n % 2 = 0 THEN "Understanding seo" ELSE "Key Takeaways"
LevelAt(n) == IF n > 1 /\ n % 2 = 1 THEN "h3" ELSE "h2"

DedupeTexts == {<<"a", ".">>, <<" ", "a">>, <<"b", ".">>, <<>>}
Thresholds == {<<9, 10>>, <<4, 5>>}

DedupeInputs ==
    UNION { { [n \in 1..len |-> Section(TitleAt(n), LevelAt(n), ts[n])] : ts \in [1..len -> DedupeTexts] } :
            len \in 0..MaxSections }

InitDedupe ==
    /\ pc = "dd_start"
    /\ sections \in DedupeInputs
    /\ threshold \in Thresholds
    /\ quota = MaxOffNominal + 1
    /\ calls = <<>>
    /\ topic \in Topics /\ heading = <<>> /\ word_count = 0 /\ polish = FALSE /\ output_format = ""
    /\ deep = FALSE /\ cache_file = CacheAbsent /\ args = <<>> /\ result = <<>>
    /\ research = None /\ outline = <<>> /\ metadata = None /\ idx = 0
    /\ generated_sections = <<>> /\ printed = <<>> /\ exit_code = -1 /\ exported = <<>>
    /\ embs = <<>> /\ keep = <<>> /\ i = 0 /\ k = 0 /\ sec = NoSection
    /\ polished = <<>> /\ p = 0
    /\ mr_result = None

NextDedupe == Dedupe

SpecDedupe == InitDedupe /\ [][NextDedupe]_vars

\* ------------------------------------------------------ polish_sections alone
\* The section texts polish_sections is run on by itself: two sentences, six
\* sentences, a heading line, no sentence at all, no text.
PolishTexts ==
    { <<"a", ".", " ", "b", "!">>,
      <<"a", ".", "b", "?", "c", ".", " ", "d", ".", "e", ".", "f">>,
      <<"#", " ", "*", "*", "h", "\n", "g">>,
      <<" ", ".", "!">>,
      <<>> }

PolishInputs ==
    UNION { { [n \in 1..len |-> Section(IF lv[n] = "h2" THEN "Understanding seo" ELSE "Key Takeaways", lv[n], ts[n])] :
                  ts \in [1..len -> PolishTexts], lv \in [1..len -> {"h2", "h3"}] } :
            len \in 0..MaxSections }

InitPolish ==
    /\ pc = "po_loop"
    /\ sections \in PolishInputs
    /\ polished = <<>> /\ p = 1
    /\ quota = MaxOffNominal + 1
    /\ calls = <<>>
    /\ topic \in Topics /\ heading = <<>> /\ word_count = 0 /\ polish = TRUE /\ output_format = ""
    /\ deep = FALSE /\ cache_file = CacheAbsent /\ args = <<>> /\ result = <<>>
    /\ research = None /\ outline = <<>> /\ metadata = None /\ idx = 0
    /\ generated_sections = <<>> /\ printed = <<>> /\ exit_code = -1 /\ exported = <<>>
    /\ threshold = <<0, 1>> /\ embs = <<>> /\ keep = <<>> /\ i = 0 /\ k = 0 /\ sec = NoSection
    /\ mr_result = None

NextPolish == Polish

SpecPolish == InitPolish /\ [][NextPolish]_vars

\* ------------------------------------------------- slugify and clamp alone
\* Bound: the longest text slugify and clamp are run on by themselves.
MaxLen == 4

\* All texts of at most n characters of an alphabet.
TextsUpTo(alphabet, n) == UNION {[1..len -> alphabet] : len \in 0..n}

SlugAlphabet == {"A", "b", "1", " ", "-", "_", "!"}
ClampAlphabet == {"a", " ", "\t"}

\* "Top 10 Tips! (2024 Edition)"
EditionHeading ==
    <<"T", "o", "p", " ", "1", "0", " ", "T", "i", "p", "s", "!", " ",
      "(", "2", "0", "2", "4", " ", "E", "d", "i", "t", "i", "o", "n", ")">>

SeoArgs ==
    {<<t>> : t \in TextsUpTo(SlugAlphabet, MaxLen) \cup {EditionHeading}}
    \cup {<<t, n>> : t \in TextsUpTo(ClampAlphabet, MaxLen), n \in 0..MaxLen}

CallSlugify ==
    /\ pc = "seo_alone"
    /\ Len(args) = 1
    /\ result' = slugify(args[1])
    /\ pc' = "slugify_returned"
    /\ UNCHANGED <<inputVars, cliVars, ddVars, poVars, mrVars, envVars, diskVars, args>>

CallClamp ==
    /\ pc = "seo_alone"
    /\ Len(args) = 2
    /\ result' = clamp(args[1], args[2])
    /\ pc' = "clamp_returned"
    /\ UNCHANGED <<inputVars, cliVars, ddVars, poVars, mrVars, envVars, diskVars, args>>

InitSeo ==
    /\ pc = "seo_alone"
    /\ args \in SeoArgs
    /\ result = <<>>
    /\ topic \in Topics /\ heading = <<>> /\ word_count = 0 /\ polish = FALSE /\ output_format = ""
    /\ deep = FALSE /\ cache_file = CacheAbsent
    /\ research = None /\ outline = <<>> /\ metadata = None /\ idx = 0
    /\ generated_sections = <<>> /\ printed = <<>> /\ exit_code = -1 /\ exported = <<>>
    /\ sections = <<>> /\ threshold = <<0, 1>> /\ embs = <<>> /\ keep = <<>> /\ i = 0 /\ k = 0 /\ sec = NoSection
    /\ polished = <<>> /\ p = 0
    /\ mr_result = None
    /\ quota = 0 /\ calls = <<>>

NextSeo == CallSlugify \/ CallClamp

SpecSeo == InitSeo /\ [][NextSeo]_vars

\* --------------------------------------------------- perform_research alone
\* Bound: the number of runs of perform_research on one cache file.
MaxRuns == 3

\* The cache files the runs may start with.
InitialCacheFiles ==
    {CacheAbsent, CacheUnreadable, CacheDict(<<>>)}
    \cup {CacheDict(cache_key(tp, TRUE) :> BundleOf(<<SearchItem(<<"A">>, <<"x">>)>>)) : tp \in Topics}

\* One run: cli reads --topic and --deep and calls perform_research; args
\* and result keep the arguments and the outcome of every run.
ResearchRun ==
    /\ pc = "research_alone"
    /\ Len(args) < MaxRuns
    /\ \E tp \in Topics, dp \in BOOLEAN :
          \E reply \in (IF CacheHit(cache_file, tp, dp) THEN {SearchNominal} ELSE SearchReplies(1)) :
              LET out == perform_research(cache_file, tp, dp, reply)
              IN  /\ topic' = tp
                  /\ deep' = dp
                  /\ args' = Append(args, <<tp, dp>>)
                  /\ result' = Append(result, [raised |-> out.raised, research |-> out.research])
                  /\ research' = out.research
                  /\ calls' = calls \o out.log
                  /\ cache_file' = out.file
    /\ UNCHANGED <<pc, heading, word_count, polish, output_format, outline, metadata, idx, generated_sections,
                   printed, exit_code, exported, ddVars, poVars, mrVars, quota>>

InitResearch ==
    /\ pc = "research_alone"
    /\ topic \in Topics
    /\ heading = <<>> /\ word_count = 0
    /\ deep = FALSE
    /\ cache_file \in InitialCacheFiles
    /\ research = None
    /\ quota = 0
    /\ Untouched

NextResearch == ResearchRun

SpecResearch == InitResearch /\ [][NextResearch]_vars

\* ---------------------------------------------- build_tagged_evidence alone
\* Bound: the number of freely chosen sources at the end of a source list.
MaxTail == 3

DigitChars == <<"0", "1", "2", "3", "4", "5", "6", "7", "8", "9">>

\* Sources with the texts "p0" .. "p9", all different.
PadSource(n) == [title |-> <<"p", DigitChars[n]>>, snippet |-> <<>>]
PadSources(len) == [n \in 1..len |-> PadSource(n)]

\* A statistic, a source without text, a source of dashes and blanks only, a
\* tool, the same tool with blanks around the title, a quotation, a number,
\* a percentage with a quoted case and a tool, a case with a tool, and a
\* tool with the factor "2.5x".
EvidenceSources ==
    { [title |-> <<"u", "p">>, snippet |-> <<"5", "%">>],
      [title |-> <<>>, snippet |-> <<>>],
      [title |-> <<" ">>, snippet |-> <<EmDash>>],
      [title |-> <<"t", "o", "o", "l">>, snippet |-> <<>>],
      [title |-> <<" ", "t", "o", "o", "l", " ">>, snippet |-> <<>>],
      [title |-> <<"x">>, snippet |-> <<"\"", "y", "\"">>],
      [title |-> <<>>, snippet |-> <<"7", " ", "x">>],
      [title |-> <<"5", "%">>, snippet |-> <<"\"", "c", "a", "s", "e", "\"", " ", "t", "o", "o", "l">>],
      [title |-> <<"c", "a", "s", "e">>, snippet |-> <<"t", "o", "o", "l">>],
      [title |-> <<"2", ".", "5", "x">>, snippet |-> <<"t", "o", "o", "l">>] }

\* Source lists of 0 .. MaxTail and of 10 .. 10 + MaxTail sources.
EvidenceInputs ==
    { [sources |-> PadSources(len) \o tl, insights |-> <<>>, keywords |-> <<>>] :
        len \in {0, 10}, tl \in TextsUpTo(EvidenceSources, MaxTail) }

CallBuildTaggedEvidence ==
    /\ pc = "evidence_alone"
    /\ args' = <<research>>
    /\ result' = build_tagged_evidence(research)
    /\ pc' = "evidence_returned"
    /\ UNCHANGED <<inputVars, cliVars, ddVars, poVars, mrVars, envVars, diskVars>>

InitEvidence ==
    /\ pc = "evidence_alone"
    /\ research \in EvidenceInputs
    /\ topic \in Topics /\ heading = <<>> /\ word_count = 0
    /\ deep = FALSE /\ cache_file = CacheAbsent
    /\ quota = 0
    /\ Untouched

NextEvidence == CallBuildTaggedEvidence

SpecEvidence == InitEvidence /\ [][NextEvidence]_vars

\* ------------------------------------------ claims about the Deduplicator
\* The requests of one service in the log.
CallsOf(svc) == {n \in 1..Len(calls) : calls[n].svc = svc}

\* The comparisons whose embedding request was answered.
Comparisons == {n \in CallsOf("embed") : calls[n].ok}

\* C4: the returned list has the length of the input and its n-th element
\* has the title and level of the n-th input section; only text may differ.
C4_DedupeKeepsShape ==
    pc = "dd_returned" =>
        /\ Len(keep) = Len(sections)
        /\ \A n \in 1..Len(keep) : keep[n] = [sections[n] EXCEPT !.text = keep[n].text]

C4_Witness ==
    /\ pc = "dd_returned"
    /\ Len(sections) = 3
    /\ \E n \in 1..Len(keep) : keep[n].text # sections[n].text

\* C5 as stated: whenever a computed similarity is at or above the
\* threshold, the later section's text in the output differs from its
\* original text and the kept section's text is what it was at the comparison.
C5_DuplicateReplaced_AsStated ==
    pc = "dd_returned" =>
        \A n \in Comparisons :
            calls[n].hit =>
                /\ keep[calls[n].i].text # sections[calls[n].i].text
                /\ keep[calls[n].k].text = calls[n].kept_text

\* C5 amended: whenever a computed similarity is at or above the threshold
\* (equality included), one paraphrase request is sent for the later section
\* and its text in the output is the trimmed reply, or its own trimmed text
\* when the reply is empty (so it differs from the original only if the
\* service returned another text or trimming changed it); the kept section's
\* text in the output is what it was at the comparison.
C5_DuplicateReplaced ==
    pc = "dd_returned" =>
        \A n \in Comparisons :
            calls[n].hit =>
                /\ \E m \in CallsOf("paraphrase") :
                      /\ m > n
                      /\ calls[m].i = calls[n].i
                      /\ calls[m].ok
                      /\ keep[calls[n].i].text = Strip(OrElse(calls[m].content, sections[calls[n].i].text))
                      /\ \A m2 \in CallsOf("paraphrase") : calls[m2].i = calls[n].i => m2 = m
                /\ keep[calls[n].k].text = calls[n].kept_text

\* A similarity exactly at the threshold, and the later text replaced.
C5_Witness ==
    /\ pc = "dd_returned"
    /\ \E n \in Comparisons :
          /\ calls[n].sim[1] * threshold[2] = threshold[1] * calls[n].sim[2]
          /\ keep[calls[n].i].text # sections[calls[n].i].text
          /\ keep[calls[n].i].text = <<"c", ".">>

\* C6: a section all of whose computed similarities are strictly below the
\* threshold gets no paraphrase request and keeps its input text.
C6_BelowThresholdUntouched ==
    pc = "dd_returned" =>
        \A n \in 1..Len(sections) :
            (\A c \in Comparisons : calls[c].i = n => ~calls[c].hit) =>
                /\ \A m \in CallsOf("paraphrase") : calls[m].i # n
                /\ keep[n].text = sections[n].text

\* Three sections, the last compared with both kept ones, each similarity
\* positive and below the threshold.
C6_Witness ==
    /\ pc = "dd_returned"
    /\ Len(sections) = 3
    /\ Cardinality({c \in Comparisons : calls[c].i = 3 /\ ~calls[c].hit /\ calls[c].sim[1] > 0}) = 2
    /\ keep[3].text = sections[3].text

\* The requests of the run for incoming section n: its comparisons, and its
\* paraphrase requests, in the order they were issued.
ComparisonsOf(n) == SelectSeq(calls, LAMBDA c : c.svc = "embed" /\ c.i = n)
ParaphrasesOf(n) == SelectSeq(calls, LAMBDA c : c.svc = "paraphrase" /\ c.i = n)

\* C18: the Deduplicator compares an incoming section with the kept sections
\* in kept order, each time with the kept section's current text, and stops
\* at the first similarity at or above the threshold.  So there is at most
\* one paraphrase request per incoming section, issued right after the first
\* hit and followed by no further request for that section; a kept section
\* is the input section with its own paraphrase (or its own text) forever
\* after; the first section is never paraphrased, and n sections cause at
\* most n - 1 paraphrase requests.
C18_DedupeFirstMatchOnly ==
    pc \in {"dd_loop", "dd_inner", "dd_paraphrase", "dd_raised", "dd_returned"} =>
        /\ \A n \in 1..Len(sections) :
              LET es == ComparisonsOf(n)
                  ps == ParaphrasesOf(n)
              IN  /\ Len(es) <= n - 1
                  /\ \A j \in 1..Len(es) :
                        /\ es[j].k = j
                        /\ es[j].ok => es[j].kept_text = keep[j].text
                        /\ j < Len(es) => es[j].ok /\ ~es[j].hit
                  /\ Len(ps) <= 1
                  /\ ps # <<>> => es # <<>> /\ es[Len(es)].ok /\ es[Len(es)].hit
                  /\ n <= Len(keep) =>
                        /\ keep[n].title = sections[n].title
                        /\ keep[n].level = sections[n].level
                        /\ keep[n].text = IF ps # <<>>
                                          THEN paraphrase_text(Replied(ps[1].content), sections[n].text)
                                          ELSE sections[n].text
                        /\ ps # <<>> <=> (es # <<>> /\ es[Len(es)].hit)
        /\ ParaphrasesOf(1) = <<>>
        /\ Cardinality(CallsOf("paraphrase")) <= Max2(Len(sections), 1) - 1
        /\ \A a, b \in CallsOf("embed") \cup CallsOf("paraphrase") :
              a < b => /\ calls[a].i <= calls[b].i
                       /\ calls[a].svc = "paraphrase" => calls[a].i < calls[b].i

\* Three sections: the second collided with the first and was paraphrased,
\* the third was compared with the first and then with the paraphrased text
\* of the second, collided with that one, and was paraphrased too.
C18_Witness ==
    /\ pc = "dd_returned"
    /\ Len(sections) = 3
    /\ Len(ComparisonsOf(3)) = 2
    /\ ComparisonsOf(3)[2].kept_text # sections[2].text
    /\ ComparisonsOf(3)[2].hit
    /\ Cardinality(CallsOf("paraphrase")) = 2

\* ---------------------------------------------------- claims about the run
\* The generation requests that failed: the service raised, or the response
\* had no choices.
FailedGenerations == {n \in CallsOf("generate") : ~calls[n].ok}

\* C7: a failed generation request is the last request of the run: no later
\* entry is requested, the request is not repeated, the Deduplicator, the
\* Refiner and the exporters are not invoked, and the run has ended with
\* status 1.
C7_GenerationFailureAborts ==
    \A n \in FailedGenerations :
        /\ n = Len(calls)
        /\ \A m \in CallsOf("generate") : m # n => calls[m].i < calls[n].i
        /\ pc \in {"exited", "crashed"}
        /\ exit_code = 1
        /\ exported = <<>>

\* The third entry fails after two sections were written.
C7_Witness ==
    /\ pc = "exited"
    /\ \E n \in FailedGenerations : calls[n].i = 3 /\ calls[n].kind = "rate_limit"
    /\ Len(generated_sections) = 2

\* C8: the message printed for a failed generation request is the message of
\* the kind that occurred, followed by "Aborting.", and no reply of another
\* kind has that message.
C8_FailureMessagePerKind ==
    \A n \in CallsOf("generate") :
        calls[n].kind # "" =>
            /\ Len(printed) = 2
            /\ printed[1] = FailureMessage(Raised(calls[n].kind, calls[n].detail))
            /\ printed[2] = "Aborting."
            /\ \A other \in ServiceFailures :
                  other.kind # calls[n].kind => FailureMessage(other) # printed[1]

C8_Witness ==
    /\ pc = "exited"
    /\ \E n \in CallsOf("generate") : calls[n].kind = "status" /\ calls[n].detail = "Bad gateway"
    /\ printed = <<"OpenAI API returned an error: Bad gateway", "Aborting.">>

\* Every outline entry was requested and every request succeeded.
AllSectionsWritten ==
    /\ outline # <<>>
    /\ Cardinality({n \in CallsOf("generate") : calls[n].ok}) = Len(SectionsOf(outline))

\* C9: once every generation request has succeeded, no failure of a later
\* request ends the run without an article: the run does not end with an
\* uncaught error, and when it has ended the exporters were handed the
\* article.
C9_LaterFailuresAbsorbed ==
    AllSectionsWritten =>
        /\ pc # "crashed"
        /\ pc \in {"done", "exited"} => (pc = "done" /\ exported # <<>>)

\* The response of the last micro-refinement request, and whether it fails
\* to parse or has a field of the wrong shape.
Malformed(content) ==
    \/ content.doc # "object"
    \/ "metadata" \in DOMAIN content.fields /\ content.fields["metadata"].t # "dict"
    \/ "sections" \in DOMAIN content.fields /\ content.fields["sections"].t # "list"

\* C10: when the micro-refinement response does not parse as a JSON object,
\* or its metadata is not an object or its sections is not a list,
\* micro_refine_article raises nothing and returns the input metadata and
\* the input sections.
C10_MalformedRefinementIsNoOp ==
    (pc \in {"mr_returned", "mr_raised"} /\ calls[Len(calls)].replied /\ Malformed(calls[Len(calls)].content)) =>
        /\ pc = "mr_returned"
        /\ mr_result = <<metadata, sections>>

\* A response whose sections are a list but whose metadata is null.
C10_Witness ==
    /\ pc = "mr_returned"
    /\ calls[Len(calls)].content.doc = "object"
    /\ "metadata" \in DOMAIN calls[Len(calls)].content.fields
    /\ calls[Len(calls)].content.fields["metadata"].t = "null"
    /\ "sections" \in DOMAIN calls[Len(calls)].content.fields
    /\ calls[Len(calls)].content.fields["sections"].t = "list"
    /\ Len(sections) > 8
    /\ mr_result = <<metadata, sections>>

\* ------------------------------------------------ claims about the planner
\* Positions (1-based) of the body H2 nodes: H2 other than Introduction and
\* Conclusion.
BodyPositions(ol) ==
    {n \in 1..Len(ol) : ol[n].level = "h2" /\ ol[n].title \notin {"Introduction", "Conclusion"}}

BodyH2Count(ol) == Cardinality(BodyPositions(ol))

RECURSIVE SumH2(_, _)
SumH2(ol, n) ==
    IF n > Len(ol) THEN 0
    ELSE (IF ol[n].level = "h2" THEN ol[n].target_words ELSE 0) + SumH2(ol, n + 1)

\* The body H2 count of the outline of every target in range, per topic
\* (SubSeq and @@ make TLC compute the table once).
BodyCountOf ==
    [tp \in Topics |-> SubSeq([a \in 1..MaxWords |-> BodyH2Count(generate_outline(tp, a))], 1, MaxWords)] @@ <<>>

\* C1: targets <= 700 give exactly 5 body H2 sections, targets >= 3000
\* exactly 10, every count lies in 5..10, and a smaller target never gives
\* more body sections than a larger one.
C1_BodySectionCount ==
    pc = "generate" =>
        /\ word_count <= 700 => BodyH2Count(outline) = 5
        /\ word_count >= 3000 => BodyH2Count(outline) = 10
        /\ BodyH2Count(outline) \in 5..10
        /\ \A a \in 1..word_count : BodyCountOf[topic][a] <= BodyH2Count(outline)

C1_Witness ==
    /\ pc = "generate"
    /\ word_count > 700
    /\ word_count < 3000
    /\ BodyH2Count(outline) = 7

\* C2 as stated: for every positive target the H2 budgets sum to the target
\* up to the flooring loss, i.e. they differ by fewer than num_h2 + 2 words.
C2_SumWithinTolerance_AsStated ==
    pc = "generate" =>
        LET d == word_count - SumH2(outline, 1)
        IN  /\ d < BodyH2Count(outline) + 2
            /\ -d < BodyH2Count(outline) + 2

\* C2 amended: for every target >= 840 (the sum of the minimum budgets
\* 120 + 5 * 120 + 120) the H2 budgets sum to at most the target and fall
\* short of it by fewer than num_h2 + 2 words; for every smaller target the
\* sum is 840.
C2_SumWithinTolerance ==
    pc = "generate" =>
        /\ word_count >= 840 =>
              /\ SumH2(outline, 1) <= word_count
              /\ word_count - SumH2(outline, 1) < BodyH2Count(outline) + 2
        /\ word_count < 840 => SumH2(outline, 1) = 840

C2_Witness ==
    /\ pc = "generate"
    /\ word_count >= 840
    /\ word_count - SumH2(outline, 1) = 4

\* The n-th (1-based) smallest element of a finite set of integers.
RECURSIVE NthOf(_, _)
NthOf(S, n) ==
    LET least == CHOOSE x \in S : \A y \in S : x <= y
    IN  IF n = 1 THEN least ELSE NthOf(S \ {least}, n - 1)

\* C3: the outline holds exactly max(1, floor(num_h2 / 3)) H3 nodes and, for
\* each j below that number, the node right after the j-th body H2 is the H3
\* titled variant j mod 5 with target_words max(80, floor(35% of the H2's
\* budget)).
C3_H3AfterEachOfFirstThird ==
    pc = "generate" =>
        LET body == BodyPositions(outline)
            m == Max2(1, Cardinality(body) \div 3)
        IN  /\ Cardinality({n \in 1..Len(outline) : outline[n].level = "h3"}) = m
            /\ \A j \in 0..(m - 1) :
                  LET at == NthOf(body, j + 1)
                  IN  /\ at + 1 <= Len(outline)
                      /\ outline[at + 1] =
                            OutlineNode("h3", h3_variants[(j % 5) + 1],
                                        Max2(80, (35 * outline[at].target_words) \div 100))

\* -------------------------------------------------- claims about the cache
\* The provider queries for a key in a log, and the saves of the cache file.
QueriesFor(log, key) == {n \in 1..Len(log) : log[n].svc = "research" /\ log[n].key = key}
Saves(log) == {n \in 1..Len(log) : log[n].svc = "cache_file" /\ log[n].op = "save"}

\* What a run appended to the log.
Appended == SubSeq(calls', Len(calls) + 1, Len(calls'))

Shape(ss) == [n \in 1..Len(ss) |-> [title |-> ss[n].title, level |-> ss[n].level]]

\* a is b with some elements left out.
RECURSIVE IsSubsequence(_, _)
IsSubsequence(a, b) ==
    IF a = <<>> THEN TRUE
    ELSE IF b = <<>> THEN FALSE
    ELSE IF Head(a) = Head(b) THEN IsSubsequence(Tail(a), Tail(b))
    ELSE IsSubsequence(a, Tail(b))

\* C11 as stated: the generation loop, the Deduplicator and Polish return
\* the titles and levels they received, in the same number and order, and
\* micro-refinement returns other ones only for a response that passed the
\* shape validation.
C11_OnlyRefineRestructures_AsStated ==
    /\ pc = "generate" => Shape(generated_sections) = Shape(SubSeq(outline, 1, Len(generated_sections)))
    /\ pc = "dd_returned" => Shape(keep) = Shape(generated_sections)
    /\ pc = "po_returned" => Shape(polished) = Shape(generated_sections)
    /\ (pc = "mr_returned" /\ Shape(mr_result[2]) # Shape(generated_sections)) =>
            ~Malformed(calls[Len(calls)].content)

\* C11 amended: the generation loop and the Deduplicator return the titles
\* and levels they received, in the same number and order; Polish returns
\* the sections it received in their order and only adds sections between
\* them; micro-refinement returns other titles, levels, number or order only
\* for a response that passed the shape validation.
C11_OnlyRefineRestructures ==
    /\ pc = "generate" => Shape(generated_sections) = Shape(SubSeq(outline, 1, Len(generated_sections)))
    /\ pc = "dd_returned" => Shape(keep) = Shape(generated_sections)
    /\ pc = "po_returned" =>
          /\ IsSubsequence(Shape(generated_sections), Shape(polished))
          /\ Len(polished) >= Len(generated_sections)
    /\ (pc = "mr_returned" /\ Shape(mr_result[2]) # Shape(generated_sections)) =>
            ~Malformed(calls[Len(calls)].content)

\* Polish added sections and a validated response dropped and reordered some.
C11_Witness ==
    /\ pc = "mr_returned"
    /\ Len(generated_sections) > Len(outline)
    /\ Len(mr_result[2]) = Len(generated_sections) - 1
    /\ Shape(mr_result[2]) # Shape(SubSeq(generated_sections, 2, Len(generated_sections)))

\* -------------------------------------------------- claims about Polish
\* The sentences of a text, read off the positions of the sentence ends:
\* the trimmed pieces between two neighbouring ends that are not empty, by
\* the position they start after.
SentenceEnds(t) == {n \in 1..Len(t) : t[n] \in {".", "!", "?"}}
EndAfter(t, b) ==
    IF \E n \in SentenceEnds(t) : n > b
    THEN CHOOSE n \in SentenceEnds(t) : n > b /\ \A m \in SentenceEnds(t) : m > b => n <= m
    ELSE Len(t) + 1
SentenceAfter(t, b) == Strip(SubSeq(t, b + 1, EndAfter(t, b) - 1))
SentenceStarts(t) == {b \in {0} \cup SentenceEnds(t) : SentenceAfter(t, b) # <<>>}
FirstSentences(t) ==
    [j \in 1..Min2(5, Cardinality(SentenceStarts(t))) |-> SentenceAfter(t, NthOf(SentenceStarts(t), j))]

\* The takeaway requests that failed.
FailedSyntheses == {n \in CallsOf("summarize") : ~calls[n].ok}

\* C12 as stated: after a failed takeaway request for a section, the section
\* is followed by an H3 "Key Takeaways" whose bullets are the first up to 5
\* non-empty sentences of its marker-stripped text.
C12_FallbackTakeaways_AsStated ==
    \A n \in FailedSyntheses :
        /\ Len(polished) > calls[n].at
        /\ polished[calls[n].at + 1] =
              Section("Key Takeaways", "h3", BulletText(FirstSentences(polished[calls[n].at].text)))

\* C12 amended: after a failed takeaway request for a section whose
\* marker-stripped text has a non-empty sentence, the section is followed by
\* an H3 "Key Takeaways" whose bullets are its first up to 5 non-empty
\* sentences, trimmed, in text order; when the text has no non-empty
\* sentence nothing is added after the section.
C12_FallbackTakeaways ==
    \A n \in FailedSyntheses :
        LET at == calls[n].at
            sentences == FirstSentences(polished[at].text)
        IN  IF sentences # <<>>
            THEN /\ Len(polished) > at
                 /\ polished[at + 1] = Section("Key Takeaways", "h3", BulletText(sentences))
            ELSE Len(polished) > at =>
                    /\ calls[n].i < Len(sections)
                    /\ polished[at + 1] = Section(sections[calls[n].i + 1].title, sections[calls[n].i + 1].level,
                                                  strip_markdown_headings(sections[calls[n].i + 1].text))

\* A failed request for the text of six sentences: five bullets, the first
\* five sentences.
C12_Witness ==
    \E n \in FailedSyntheses :
        /\ Len(polished) > calls[n].at
        /\ Len(sections[calls[n].i].text) = 12
        /\ polished[calls[n].at + 1].text =
              <<"-", " ", "a", "\n", "-", " ", "b", "\n", "-", " ", "c", "\n", "-", " ", "d", "\n", "-", " ", "e">>

\* The input sections a "Key Takeaways" section was added for, and the
\* position of an input section in the output.
AddedFor == {calls[n].i : n \in {c \in CallsOf("summarize") : calls[c].bullets # <<>>}}
PolishedAt(n) == n + Cardinality({m \in AddedFor : m < n})

\* C20: polish_sections returns the input sections in their order with
\* their titles and levels, each H2 whose synthesis gave bullets directly
\* followed by an H3 "Key Takeaways", and nothing else: nothing after an H3
\* input, nothing for an H2 without bullets, a length between the input's
\* and the input's plus the number of its H2 sections.
C20_PolishInsertsAfterParent ==
    pc = "po_returned" =>
        /\ Len(polished) = Len(sections) + Cardinality(AddedFor)
        /\ \A n \in 1..Len(sections) :
              /\ Shape(polished)[PolishedAt(n)] = Shape(sections)[n]
              /\ n \in AddedFor =>
                    /\ sections[n].level = "h2"
                    /\ Shape(polished)[PolishedAt(n) + 1] = [title |-> "Key Takeaways", level |-> "h3"]
              /\ (sections[n].level = "h2" /\ n \notin AddedFor) =>
                    \A c \in CallsOf("summarize") : calls[c].i = n => calls[c].bullets = <<>>
        /\ Len(polished) >= Len(sections)
        /\ Len(polished) <= Len(sections) + Cardinality({n \in 1..Len(sections) : sections[n].level = "h2"})

\* An H2 with bullets, an H3, an H2 whose synthesis gave none.
C20_Witness ==
    /\ pc = "po_returned"
    /\ Len(sections) = 3
    /\ sections[1].level = "h2" /\ sections[2].level = "h3" /\ sections[3].level = "h2"
    /\ AddedFor = {1}
    /\ Len(polished) = 4
    /\ polished[2].title = "Key Takeaways" /\ polished[3].title = "Key Takeaways"

\* ----------------------------------------- claims about slugify and clamp
\* C13: slugify of a slug is the slug, and a slug has only lowercase
\* letters, digits and hyphens, no two hyphens in a row and no hyphen at
\* either end.
C13_SlugifyIdempotent ==
    pc = "slugify_returned" =>
        /\ slugify(result) = result
        /\ \A n \in 1..Len(result) : result[n] \in LowerLetters \cup Digits \cup {"-"}
        /\ \A n \in 1..(Len(result) - 1) : ~(result[n] = "-" /\ result[n + 1] = "-")
        /\ result # <<>> => (result[1] # "-" /\ result[Len(result)] # "-")

\* "Top 10 Tips! (2024 Edition)" gives "top-10-tips-2024-edition".
C13_Witness ==
    /\ pc = "slugify_returned"
    /\ args = <<EditionHeading>>
    /\ result = <<"t", "o", "p", "-", "1", "0", "-", "t", "i", "p", "s", "-",
                  "2", "0", "2", "4", "-", "e", "d", "i", "t", "i", "o", "n">>

\* The length of the first word of a text: its first run of characters that
\* are not whitespace.
FirstWordLen(t) ==
    LET rest == LStrip(t, Whitespace)
        stop == FirstIn(rest, Whitespace)
    IN  IF stop = 0 THEN Len(rest) ELSE stop - 1

\* C14: clamp(text, n) is a prefix of text of at most n characters that
\* does not stop inside a word (between two characters that are not
\* whitespace) unless the first word of text is longer than n.
C14_ClampKeepsWords ==
    pc = "clamp_returned" =>
        LET text == args[1]
            cut == Len(result)
        IN  /\ cut <= args[2]
            /\ cut <= Len(text)
            /\ result = SubSeq(text, 1, cut)
            /\ (cut >= 1 /\ cut < Len(text) /\ text[cut] \notin Whitespace /\ text[cut + 1] \notin Whitespace)
                  => FirstWordLen(text) > args[2]

\* ------------------------------------------ claims about the section list
\* The positions of the control flow inside the Deduplicator.
InDedupe == pc \in {"dd_start", "dd_loop", "dd_inner", "dd_paraphrase", "dd_returned"}

\* C15: when the Deduplicator is called every outline entry has had exactly
\* one generation request, in outline order; the list it is handed, the list
\* it returns and the list cli holds after it, before any refinement, have
\* the length of the outline and the title and level of each entry.
C15_SectionsMatchOutline ==
    /\ InDedupe =>
          /\ FailedGenerations = {}
          /\ Cardinality(CallsOf("generate")) = Len(outline)
          /\ \A n \in 1..Len(outline) : \E c \in CallsOf("generate") : calls[c].i = n
          /\ \A a, b \in CallsOf("generate") : a < b => calls[a].i < calls[b].i
          /\ sections = generated_sections
          /\ Shape(sections) = Shape(outline)
    /\ pc = "dd_returned" => Shape(keep) = Shape(outline)
    /\ (pc = "po_loop" \/ (pc = "export" /\ ~polish)) => Shape(generated_sections) = Shape(outline)

\* Ten entries, with H3 entries among them, and a section the Deduplicator
\* had paraphrased.
C15_Witness ==
    /\ pc = "dd_returned"
    /\ Len(outline) = 10
    /\ \E n \in 1..Len(outline) : outline[n].level = "h3"
    /\ \E n \in 1..Len(keep) : keep[n].text # generated_sections[n].text

\* ------------------------------------------------- claims about the evidence
\* The sources build_tagged_evidence reads.
SourcesRead == SubSeq(args[1].sources, 1, Min2(12, Len(args[1].sources)))

\* The first position of an item in a sequence of items.
FirstPosition(items, item) ==
    CHOOSE n \in 1..Len(items) : items[n] = item /\ \A m \in 1..(n - 1) : items[m] # item

\* C16: build_tagged_evidence returns at most 12 items, no two of them equal;
\* the items are exactly the renderings of the sources with a non-empty text
\* among the first 12 sources, in the order in which their sources first
\* appear; the sources after the 12th and the sources without a text add
\* nothing.
C16_EvidenceFirstTwelveUnique ==
    pc = "evidence_returned" =>
        LET texts == [n \in 1..Len(SourcesRead) |-> EvidenceText(SourcesRead[n])]
            rendered == [n \in 1..Len(SourcesRead) |->
                            IF texts[n] = <<>> THEN <<>> ELSE EvidenceItem(SourcesRead[n])]
        IN  /\ Len(result) <= 12
            /\ \A a, b \in 1..Len(result) : result[a] = result[b] => a = b
            /\ {result[n] : n \in 1..Len(result)} = {rendered[n] : n \in 1..Len(rendered)} \ {<<>>}
            /\ \A a \in 1..(Len(result) - 1) :
                  FirstPosition(rendered, result[a]) < FirstPosition(rendered, result[a + 1])

\* 13 sources, the 13th with a text; among the first 12 a source without
\* text and two sources with the same rendering.
C16_Witness ==
    /\ pc = "evidence_returned"
    /\ Len(args[1].sources) = 13
    /\ EvidenceText(args[1].sources[13]) # <<>>
    /\ \A n \in 1..Len(result) : result[n] # EvidenceItem(args[1].sources[13])
    /\ Len(result) = 11
    /\ \E n \in 1..12 : EvidenceText(args[1].sources[n]) = <<>>
\* ------------------------------------------ claims about the order of stages
\* The stage a request belongs to.
StageOf(c) ==
    CASE c.svc \in {"research", "cache_file"} -> 0
      [] c.svc = "generate" -> 1
      [] c.svc \in {"embed_all", "embed", "paraphrase"} -> 2
      [] c.svc = "summarize" -> 3
      [] c.svc = "refine" -> 4

DedupeRunning == pc \in {"dd_start", "dd_loop", "dd_inner", "dd_paraphrase", "dd_raised", "dd_returned"}

\* The requests to external services a step has issued.
IssuedBy(before, after) ==
    {n \in (Len(before) + 1)..Len(after) : after[n].svc # "cache_file"}

\* What holds of the requests issued so far.
StagesInOrder ==
    /\ \A a, b \in 1..Len(calls) : a < b => StageOf(calls[a]) <= StageOf(calls[b])
    /\ DedupeRunning \/ CallsOf("embed_all") # {} =>
          /\ Cardinality(CallsOf("generate")) = Len(SectionsOf(outline))
          /\ \A n \in CallsOf("generate") : calls[n].ok
    /\ CallsOf("summarize") \cup CallsOf("refine") # {} => polish
    /\ exported # <<>> =>
          /\ pc = "done"
          /\ \E n \in CallsOf("embed_all") : calls[n].ok
          /\ polish => \E n \in CallsOf("refine") : calls[n].ok

\* What holds of every step: the hand-over from stage to stage, and one
\* request at a time.
StageHandover ==
    /\ pc # "dd_start" /\ pc' = "dd_start" => pc = "generate" /\ sections' = generated_sections
    /\ pc # "po_loop" /\ pc' = "po_loop" => pc = "dd_returned" /\ polish' /\ sections' = keep
    /\ pc # "mr_start" /\ pc' = "mr_start" => pc = "po_returned" /\ polish /\ sections' = polished
    /\ pc # "export" /\ pc' = "export" =>
          \/ pc = "dd_returned" /\ ~polish' /\ generated_sections' = keep
          \/ pc = "mr_returned" /\ polish /\ generated_sections' = mr_result[2]
    /\ exported' # exported => pc = "export"
    /\ SubSeq(calls', 1, Len(calls)) = calls
    /\ Cardinality(IssuedBy(calls, calls')) <= 1

\* C19: the stages of a run follow one another: the Deduplicator starts when
\* the generation request of the last outline entry has returned; with
\* --polish, Polish gets the Deduplicator's output and micro-refinement gets
\* the polished sections; without it no summarize and no refine request is
\* issued; no exporter is called before the last enabled stage has returned;
\* no step issues more than one request.
C19_StagesSequential == []StagesInOrder /\ [][StageHandover]_vars

\* A polished run that reached the exporters after requests of every stage.
C19_Witness ==
    /\ pc = "done"
    /\ polish
    /\ exported # <<>>
    /\ CallsOf("generate") # {} /\ CallsOf("embed") # {} /\ CallsOf("summarize") # {}
    /\ CallsOf("refine") # {}
\* ---------------------------------------------- claims about the evidence tag
\* The tag and the text of an item "[tag] text".
TagOfItem(item) == SubSeq(item, 1, FirstPosition(item, "]"))
TextOfItem(item) == SubSeq(item, FirstPosition(item, "]") + 2, Len(item))

\* The features of a text as the claim names them: a percentage (a digit
\* before a per-cent sign), a 4-digit year (a run of exactly four digits), a
\* decimal number (digits, a point or comma, digits), a quotation mark, the
\* case words, the tool words, a number standing alone.
StatedPercentage(t) == \E n \in 1..(Len(t) - 1) : t[n] \in Digits /\ t[n + 1] = "%"
StatedYear(t) ==
    \E n \in 1..Len(t) :
        /\ t[n] \in Digits
        /\ n = 1 \/ t[n - 1] \notin Digits
        /\ DigitRunEnd(t, n) - n + 1 = 4
StatedDecimal(t) ==
    \E n \in 1..(Len(t) - 2) : t[n] \in Digits /\ t[n + 1] \in {",", "."} /\ t[n + 2] \in Digits
StatedQuote(t) == \E n \in 1..Len(t) : t[n] \in {LeftQuote, RightQuote, "\""}
StatedCase(t) == \E w \in CaseWords : Contains(Lower(t), w)
StatedTool(t) == \E w \in ToolWords : Contains(Lower(t), w)

StatedTag(t) ==
    IF StatedPercentage(t) \/ StatedYear(t) \/ StatedDecimal(t) THEN TagStat
    ELSE IF StatedQuote(t) THEN TagQuote
    ELSE IF StatedCase(t) THEN TagCase
    ELSE IF StatedTool(t) THEN TagTool
    ELSE IF HasNumber(t) THEN TagStat
    ELSE TagCase

\* C21: every item build_tagged_evidence returns carries exactly one of the
\* tags stat, quote, case, tool, chosen by first match over the features of
\* its text: stat for a percentage, a 4-digit year or a decimal number, else
\* quote for a quotation mark, else case for a case word, else tool for a
\* tool word, else stat for a number standing alone, else case.
C21_TagByFirstMatch ==
    pc = "evidence_returned" =>
        \A n \in 1..Len(result) :
            /\ TagOfItem(result[n]) \in {TagStat, TagQuote, TagCase, TagTool}
            /\ TagOfItem(result[n]) = StatedTag(TextOfItem(result[n]))
\* ------------------------------------------- claims about micro-refinement
\* The parsed response of the refine request that has just returned.
RefineResponse == calls[Len(calls)].content

HasBothFields(doc) ==
    doc.doc = "object" /\ "metadata" \in DOMAIN doc.fields /\ "sections" \in DOMAIN doc.fields

\* C22: micro_refine_article returns the input metadata and the input
\* sections when the response lacks metadata or lacks sections, and in every
\* case it returns either the input pair or the response's pair, never one
\* field of the response with the other field of the input.
C22_RefineNeverMixes ==
    pc = "mr_returned" =>
        /\ ~HasBothFields(RefineResponse) => mr_result = <<metadata, sections>>
        /\ \/ mr_result = <<metadata, sections>>
           \/ /\ HasBothFields(RefineResponse)
              /\ RefineResponse.fields["metadata"].t = "dict"
              /\ RefineResponse.fields["sections"].t = "list"
              /\ mr_result = <<RefineResponse.fields["metadata"].v, RefineResponse.fields["sections"].v>>
====
